---- MODULE Spec2Model ----
(***************************************************************************)
(* Boston payroll ETL (etl.py, main.py): column resolution, currency       *)
(* parsing, the transform pipeline and the grouped statistics of analyse.  *)
(*                                                                         *)
(* Text is a sequence of one-character strings, so that lower(),           *)
(* replace(), strip() and float() are computed character by character.     *)
(* A float64 is [nan, v] with v counted in units of 1/Scale; the inputs    *)
(* are decimals with at most FracDigits fractional digits, which the       *)
(* encoding holds exactly.  Statistics are exact rationals [nan, n, d].    *)
(***************************************************************************)
EXTENDS Integers, Sequences, FiniteSets, TLC

VARIABLES pc, raw, clean, saved, stats, err, nparsed, rc,
          columns, candidates, found, x, parsed

vars == <<pc, raw, clean, saved, stats, err, nparsed, rc,
          columns, candidates, found, x, parsed>>

-----------------------------------------------------------------------------
(* Bounds of the model                                                     *)

\* longest text handed to the currency parser when it is called on its own
MaxLen == 3
\* most rows of a raw or locally read table in the pipeline
MaxRows == 2
\* most rows of a table handed directly to analyse
MaxCleanRows == 6
\* most columns / candidates handed directly to the column resolver
MaxCols == 2
MaxCands == 2

-----------------------------------------------------------------------------
(* Characters and text                                                     *)

Upper == <<"A", "B", "C", "D", "E", "F", "G", "H", "I", "J", "K", "L", "M",
           "N", "O", "P", "Q", "R", "S", "T", "U", "V", "W", "X", "Y", "Z">>

LowerCase == <<"a", "b", "c", "d", "e", "f", "g", "h", "i", "j", "k", "l", "m",
               "n", "o", "p", "q", "r", "s", "t", "u", "v", "w", "x", "y", "z">>

Digits == <<"0", "1", "2", "3", "4", "5", "6", "7", "8", "9">>

\* the characters of the model in code-point order (Python compares text by
\* code point)
Ascii == <<" ", "$", "+", ",", "-", ".">> \o Digits \o Upper \o <<"_">> \o LowerCase

Range(s) == {s[i] : i \in 1..Len(s)}

IndexOf(s, c) == CHOOSE i \in 1..Len(s) : s[i] = c

Code(c) == IndexOf(Ascii, c)

\* str.lower() on one character
LowerChar(c) == IF c \in Range(Upper) THEN LowerCase[IndexOf(Upper, c)] ELSE c

\* str.lower()
Lower(s) == [i \in 1..Len(s) |-> LowerChar(s[i])]

\* str.replace(ch, ""): every occurrence of the character is removed
Remove(s, ch) == SelectSeq(s, LAMBDA c : c # ch)

RECURSIVE LStrip(_)
LStrip(s) == IF s # <<>> /\ Head(s) = " " THEN LStrip(Tail(s)) ELSE s

RECURSIVE RStrip(_)
RStrip(s) == IF s # <<>> /\ s[Len(s)] = " " THEN RStrip(SubSeq(s, 1, Len(s) - 1)) ELSE s

\* str.strip()
Strip(s) == RStrip(LStrip(s))

\* s < t in Python's text order
RECURSIVE TextLess(_, _)
TextLess(s, t) ==
    IF t = <<>> THEN FALSE
    ELSE IF s = <<>> THEN TRUE
    ELSE IF Head(s) # Head(t) THEN Code(Head(s)) < Code(Head(t))
    ELSE TextLess(Tail(s), Tail(t))

RECURSIVE Pow10(_)
Pow10(k) == IF k = 0 THEN 1 ELSE 10 * Pow10(k - 1)

\* all sequences over S of length at most n
RECURSIVE SeqsUpTo(_, _)
SeqsUpTo(S, n) ==
    IF n = 0 THEN {<<>>}
    ELSE LET shorter == SeqsUpTo(S, n - 1)
         IN  shorter \cup {Append(s, e) : s \in {t \in shorter : Len(t) = n - 1}, e \in S}

\* the sequences over S of length at most n that repeat no element
RECURSIVE InjSeqsUpTo(_, _)
InjSeqsUpTo(S, n) ==
    IF n = 0 THEN {<<>>}
    ELSE LET shorter == InjSeqsUpTo(S, n - 1)
         IN  shorter \cup UNION {{Append(s, e) : e \in S \ Range(s)} :
                                 s \in {t \in shorter : Len(t) = n - 1}}

-----------------------------------------------------------------------------
(* Values                                                                  *)

\* fractional digits a float of the model keeps
FracDigits == MaxLen - 1
Scale == Pow10(FracDigits)

\* float64: NaN or a number of v/Scale
NaN == [nan |-> TRUE, v |-> 0]
Num(v) == [nan |-> FALSE, v |-> v]

\* a cell of a table: None/NaN, text, or an integer number
Null == [k |-> "null", s |-> <<>>, n |-> 0]
Text(s) == [k |-> "str", s |-> s, n |-> 0]
Number(n) == [k |-> "num", s |-> <<>>, n |-> n]

\* pd.isna on a scalar
IsNa(c) == c.k = "null"

RECURSIVE NatStr(_)
NatStr(n) == IF n < 10 THEN <<Digits[n + 1]>> ELSE Append(NatStr(n \div 10), Digits[(n % 10) + 1])

\* str(x)
Str(c) ==
    IF c.k = "str" THEN c.s
    ELSE IF c.k = "null" THEN <<"N", "o", "n", "e">>
    ELSE IF c.n < 0 THEN <<"-">> \o NatStr(-c.n) ELSE NatStr(c.n)

-----------------------------------------------------------------------------
(* Names of the program                                                    *)

TOTAL_EARNINGS_U == <<"T", "O", "T", "A", "L", " ", "E", "A", "R", "N", "I", "N", "G", "S">>
Total_Earnings == <<"T", "o", "t", "a", "l", " ", "E", "a", "r", "n", "i", "n", "g", "s">>
total_earnings == <<"t", "o", "t", "a", "l", "_", "e", "a", "r", "n", "i", "n", "g", "s">>
totalearnings == <<"t", "o", "t", "a", "l", "e", "a", "r", "n", "i", "n", "g", "s">>
DEPARTMENT_U == <<"D", "E", "P", "A", "R", "T", "M", "E", "N", "T">>
Department == <<"D", "e", "p", "a", "r", "t", "m", "e", "n", "t">>
department == <<"d", "e", "p", "a", "r", "t", "m", "e", "n", "t">>
dept_name == <<"d", "e", "p", "t", "_", "n", "a", "m", "e">>
department_name == <<"d", "e", "p", "a", "r", "t", "m", "e", "n", "t", "_", "n", "a", "m", "e">>
Dept == <<"D", "e", "p", "t">>
EMPLOYEE_ID_U == <<"E", "M", "P", "L", "O", "Y", "E", "E", " ", "I", "D">>
employee_id == <<"e", "m", "p", "l", "o", "y", "e", "e", "_", "i", "d">>
EmpID == <<"E", "m", "p", "I", "D">>
id == <<"i", "d">>
UNKNOWN == <<"U", "N", "K", "N", "O", "W", "N">>

\* the alias lists transform passes to _find_col
EarningsAliases == <<TOTAL_EARNINGS_U, Total_Earnings, total_earnings, totalearnings>>
DepartmentAliases == <<DEPARTMENT_U, Department, department, dept_name, department_name, Dept>>
IdAliases == <<EMPLOYEE_ID_U, employee_id, EmpID, id>>

\* column names of the inputs that are no alias of the program
ckan_id == <<"_", "i", "d">>
Salary == <<"S", "a", "l", "a", "r", "y">>

-----------------------------------------------------------------------------
(* _find_col                                                               *)

\* c.lower().replace(" ", "").replace("_", "")
Normalize(name) == Remove(Remove(Lower(name), " "), "_")

\* {normalized: c for c in df.columns}: a later column replaces an earlier one
\* with the same key
RECURSIVE NormDict(_)
NormDict(cols) ==
    IF cols = <<>> THEN <<>>
    ELSE LET c == cols[Len(cols)]
         IN  (Normalize(c) :> c) @@ NormDict(SubSeq(cols, 1, Len(cols) - 1))

\* Optional[str]
NotFound == [found |-> FALSE, name |-> <<>>]
Found(name) == [found |-> TRUE, name |-> name]

\* for cand in candidates: ... return norm[key]; return None
RECURSIVE Lookup(_, _)
Lookup(norm, cands) ==
    IF cands = <<>> THEN NotFound
    ELSE LET key == Normalize(Head(cands))
         IN  IF key \in DOMAIN norm THEN Found(norm[key]) ELSE Lookup(norm, Tail(cands))

\* variant: the candidates are tried from the last to the first
FindColLastCandidate(cols, cands) ==
    Lookup(NormDict(cols), [i \in 1..Len(cands) |-> cands[Len(cands) + 1 - i]])

\* variant: a column is found only under the exact spelling of a candidate
FindColExact(cols, cands) ==
    LET hits == {i \in 1..Len(cands) : cands[i] \in Range(cols)}
    IN  IF hits = {} THEN NotFound
        ELSE Found(cands[CHOOSE i \in hits : \A k \in hits : i <= k])

_find_col(cols, cands) == Lookup(NormDict(cols), cands)

-----------------------------------------------------------------------------
(* transform._to_float                                                     *)

IsDigit(c) == c \in Range(Digits)

DigitVal(c) == IndexOf(Digits, c) - 1

RECURSIVE NatVal(_)
NatVal(ds) ==
    IF ds = <<>> THEN 0
    ELSE 10 * NatVal(SubSeq(ds, 1, Len(ds) - 1)) + DigitVal(ds[Len(ds)])

\* what a call returns: the exception it raises, if any, and its value
Return(v) == [exc |-> "none", val |-> v]
Raise(e) == [exc |-> e, val |-> NaN]

\* float(s) on text of the model's characters ($ , space + - . digits and
\* letters other than those of "inf", "nan" and the exponent "e"): an optional
\* sign, then digits with at most one point and at least one digit; anything
\* else raises ValueError.  The value is exact for at most FracDigits
\* fractional digits.
PyFloat(s) ==
    LET signed == s # <<>> /\ Head(s) \in {"+", "-"}
        body   == IF signed THEN Tail(s) ELSE s
        dots   == {i \in 1..Len(body) : body[i] = "."}
        dot    == IF dots = {} THEN Len(body) + 1 ELSE CHOOSE i \in dots : TRUE
        ip     == SubSeq(body, 1, dot - 1)
        fp     == SubSeq(body, dot + 1, Len(body))
        ok     == /\ Cardinality(dots) <= 1
                  /\ \A i \in 1..Len(ip) : IsDigit(ip[i])
                  /\ \A i \in 1..Len(fp) : IsDigit(fp[i])
                  /\ Len(ip) + Len(fp) >= 1
        mag    == NatVal(ip) * Scale + (NatVal(fp) * Scale) \div Pow10(Len(fp))
    IN  IF ~ok THEN Raise("ValueError")
        ELSE Return(Num(IF signed /\ Head(s) = "-" THEN -mag ELSE mag))

\* s.replace("$", "").replace(",", "").strip()
CleanText(s) == Strip(Remove(Remove(s, "$"), ","))

\* variant: the ValueError of float() is not caught
ToFloatNoExcept(c) ==
    IF IsNa(c) THEN Return(NaN)
    ELSE LET s == CleanText(Str(c))
         IN  IF s = <<>> \/ s = <<"-">> THEN Return(NaN) ELSE PyFloat(s)

_to_float(c) ==
    IF IsNa(c) THEN Return(NaN)
    ELSE LET s == CleanText(Str(c))
         IN  IF s = <<>> \/ s = <<"-">> THEN Return(NaN)
             ELSE LET r == PyFloat(s)
                  IN  IF r.exc = "ValueError" THEN Return(NaN) ELSE r

-----------------------------------------------------------------------------
(* Tables                                                                  *)

\* A raw table: cols is the sequence of column names, rows the sequence of
\* rows, each a sequence of cells aligned with cols.
\* A clean table: cols as above, rows a sequence of records
\* [department, total_earnings, id] (id is Null when no id column is kept).
NoTable == [cols |-> <<>>, rows |-> <<>>]

ColIndex(cols, name) == CHOOSE i \in 1..Len(cols) : cols[i] = name

Indices(n) == [i \in 1..n |-> i]

TOTAL_EARNINGS_CLEAN == <<"T", "O", "T", "A", "L", "_", "E", "A", "R", "N", "I", "N", "G", "S", "_", "C", "L", "E", "A", "N">>
DEPARTMENT_CLEAN == <<"D", "E", "P", "A", "R", "T", "M", "E", "N", "T", "_", "C", "L", "E", "A", "N">>

\* df[name] = ...: the column is replaced if present, appended otherwise
WithColumn(cols, name) == IF name \in Range(cols) THEN cols ELSE Append(cols, name)

\* df.dropna(subset=["TOTAL_EARNINGS_CLEAN"]), on the row numbers
DropNa(idx, conv) == SelectSeq(idx, LAMBDA i : ~conv[i].val.nan)

\* variant: rows with earnings of zero are dropped too
StrictlyPositive(idx, conv) == SelectSeq(idx, LAMBDA i : conv[i].val.v > 0)

\* df[df["TOTAL_EARNINGS_CLEAN"] >= 0], on the row numbers
NonNegative(idx, conv) == SelectSeq(idx, LAMBDA i : conv[i].val.v >= 0)

\* variant: a blank department is replaced by "UNKNOWN"
CleanDepartmentFillBlank(dept_col, cols, row) ==
    IF ~dept_col.found THEN UNKNOWN
    ELSE LET d == Strip(Str(row[ColIndex(cols, dept_col.name)]))
         IN  IF d = <<>> THEN UNKNOWN ELSE d

\* the DEPARTMENT_CLEAN value of a row: "UNKNOWN", or astype(str).str.strip()
CleanDepartment(dept_col, cols, row) ==
    IF ~dept_col.found THEN UNKNOWN
    ELSE Strip(Str(row[ColIndex(cols, dept_col.name)]))

\* if total_col is None: raise KeyError
MissingEarnings(total_col) == ~total_col.found

transform(df) ==
    LET total_col == _find_col(df.cols, EarningsAliases)
    IN  IF MissingEarnings(total_col)
        THEN [exc |-> "KeyError", table |-> NoTable, nparsed |-> 0]
        ELSE
        LET n        == Len(df.rows)
            ti       == ColIndex(df.cols, total_col.name)
            conv     == [i \in 1..n |-> _to_float(df.rows[i][ti])]
            raising  == {i \in 1..n : conv[i].exc # "none"}
            cols1    == WithColumn(df.cols, TOTAL_EARNINGS_CLEAN)
            dept_col == _find_col(cols1, DepartmentAliases)
            cols2    == WithColumn(cols1, DEPARTMENT_CLEAN)
            kept     == NonNegative(DropNa(Indices(n), conv), conv)
            id_col   == _find_col(cols2, IdAliases)
            keep_cols == <<department, total_earnings>>
                           \o (IF id_col.found THEN <<id_col.name>> ELSE <<>>)
            out(i)   == [department     |-> Text(CleanDepartment(dept_col, df.cols, df.rows[i])),
                         total_earnings |-> conv[i].val,
                         id             |-> IF id_col.found
                                            THEN df.rows[i][ColIndex(df.cols, id_col.name)]
                                            ELSE Null]
        IN  IF raising # {}
            THEN LET first == CHOOSE i \in raising : \A j \in raising : i <= j
                 IN  [exc |-> conv[first].exc, table |-> NoTable, nparsed |-> first]
            ELSE [exc    |-> "none",
                  table  |-> [cols |-> keep_cols,
                              rows |-> [j \in 1..Len(kept) |-> out(kept[j])]],
                  nparsed |-> n]

-----------------------------------------------------------------------------
(* analyse                                                                 *)

\* grouped.head(5)
TopN == 5

\* A statistic: NaN or the exact rational n/d (d > 0), in units of 1/Scale.
\* The std field carries the square of the standard deviation in units of
\* 1/Scale^2 (the radicand of the square root), so that it stays rational.
RNaN == [nan |-> TRUE, n |-> 0, d |-> 1]
R(n, d) == [nan |-> FALSE, n |-> n, d |-> d]

RLess(a, b) == a.n * b.d < b.n * a.d

RECURSIVE SumSeq(_)
SumSeq(vs) == IF vs = <<>> THEN 0 ELSE Head(vs) + SumSeq(Tail(vs))

RECURSIVE SumSq(_)
SumSq(vs) == IF vs = <<>> THEN 0 ELSE Head(vs) * Head(vs) + SumSq(Tail(vs))

RECURSIVE SortAsc(_)
SortAsc(vs) ==
    IF vs = <<>> THEN <<>>
    ELSE LET rest == SortAsc(Tail(vs))
             k    == Cardinality({i \in 1..Len(rest) : rest[i] < Head(vs)})
         IN  SubSeq(rest, 1, k) \o <<Head(vs)>> \o SubSeq(rest, k + 1, Len(rest))

\* the non-null values of a total_earnings column (the statistics skip NaN)
Values(rows) ==
    LET present == SelectSeq(Indices(Len(rows)), LAMBDA i : ~rows[i].total_earnings.nan)
    IN  [j \in 1..Len(present) |-> rows[present[j]].total_earnings.v]

StatMin(vs) == IF vs = <<>> THEN RNaN ELSE R(SortAsc(vs)[1], 1)

StatMax(vs) == IF vs = <<>> THEN RNaN ELSE R(SortAsc(vs)[Len(vs)], 1)

StatMedian(vs) ==
    LET n == Len(vs)
        sorted == SortAsc(vs)
    IN  IF n = 0 THEN RNaN
        ELSE IF n % 2 = 1 THEN R(sorted[(n + 1) \div 2], 1)
        ELSE R(sorted[n \div 2] + sorted[n \div 2 + 1], 2)

StatMean(vs) == IF vs = <<>> THEN RNaN ELSE R(SumSeq(vs), Len(vs))

\* std with ddof=1: NaN for fewer than two values
StatStd(vs) ==
    LET n == Len(vs)
    IN  IF n < 2 THEN RNaN
        ELSE R(n * SumSq(vs) - SumSeq(vs) * SumSeq(vs), n * (n - 1))

\* the "std" of overall: ... if df["total_earnings"].count() > 1 else 0.0
OverallStd(vs) == IF Len(vs) > 1 THEN StatStd(vs) ELSE R(0, 1)

Overall(rows) ==
    LET vs == Values(rows)
    IN  [count  |-> Len(vs),
         min    |-> StatMin(vs),
         max    |-> StatMax(vs),
         median |-> StatMedian(vs),
         mean   |-> StatMean(vs),
         std    |-> OverallStd(vs)]

\* .agg(["count", "min", "max", "median", "mean", "std"]) on one group
Agg(key, rows) ==
    LET vs == Values(SelectSeq(rows, LAMBDA r : r.department = key))
    IN  [department |-> key,
         count  |-> Len(vs),
         min    |-> StatMin(vs),
         max    |-> StatMax(vs),
         median |-> StatMedian(vs),
         mean   |-> StatMean(vs),
         std    |-> StatStd(vs)]

\* the order of the group keys: text ascending, the null key last
KeyLess(a, b) ==
    IF a.k = "null" THEN FALSE
    ELSE IF b.k = "null" THEN TRUE
    ELSE TextLess(a.s, b.s)

RECURSIVE SortKeys(_)
SortKeys(S) ==
    IF S = {} THEN <<>>
    ELSE LET least == CHOOSE a \in S : \A b \in S \ {a} : KeyLess(a, b)
         IN  <<least>> \o SortKeys(S \ {least})

\* variant: groupby with its default dropna=True, which leaves the null key out
GroupedDropNa(rows) ==
    LET keys == SortKeys({rows[i].department : i \in 1..Len(rows)} \ {Null})
    IN  [g \in 1..Len(keys) |-> Agg(keys[g], rows)]

\* df.groupby("department", dropna=False)["total_earnings"].agg(...).reset_index():
\* one record per department value, null included, in key order
Grouped(rows) ==
    LET keys == SortKeys({rows[i].department : i \in 1..Len(rows)})
    IN  [g \in 1..Len(keys) |-> Agg(keys[g], rows)]

\* the orders of the indices in S in which no mean is followed by a larger one
RECURSIVE Descending(_, _)
Descending(grouped, S) ==
    IF S = {} THEN {<<>>}
    ELSE UNION {{<<i>> \o t : t \in Descending(grouped, S \ {i})} :
                i \in {i \in S : \A j \in S : ~RLess(grouped[i].mean, grouped[j].mean)}}

\* variant: the records are sorted by mean ascending
RECURSIVE Ascending(_, _)
Ascending(grouped, S) ==
    IF S = {} THEN {<<>>}
    ELSE UNION {{<<i>> \o t : t \in Ascending(grouped, S \ {i})} :
                i \in {i \in S : \A j \in S : ~RLess(grouped[j].mean, grouped[i].mean)}}

SortValuesAscending(grouped) ==
    LET nums == {i \in 1..Len(grouped) : ~grouped[i].mean.nan}
        nans == SelectSeq(Indices(Len(grouped)), LAMBDA i : grouped[i].mean.nan)
    IN  {[j \in 1..Len(grouped) |-> grouped[(o \o nans)[j]]] : o \in Ascending(grouped, nums)}

\* .sort_values(by="mean", ascending=False): the default kind is quicksort,
\* which is not stable, so records with equal means may come out in any order;
\* records with a NaN mean come last (na_position="last"), in their order.
SortValues(grouped) ==
    LET nums == {i \in 1..Len(grouped) : ~grouped[i].mean.nan}
        nans == SelectSeq(Indices(Len(grouped)), LAMBDA i : grouped[i].mean.nan)
    IN  {[j \in 1..Len(grouped) |-> grouped[(o \o nans)[j]]] : o \in Descending(grouped, nums)}

\* variant: grouped.tail(5)
Tail5(s) == SubSeq(s, IF Len(s) < TopN THEN 1 ELSE Len(s) - TopN + 1, Len(s))

\* grouped.head(5)
Head5(s) == SubSeq(s, 1, IF Len(s) < TopN THEN Len(s) ELSE TopN)

NoAgg == [count |-> 0, min |-> RNaN, max |-> RNaN, median |-> RNaN, mean |-> RNaN, std |-> RNaN]
NoStats == [overall |-> NoAgg, by_department |-> <<>>, top5_by_mean |-> <<>>]

\* variant: one of the two columns is enough
HasAnyColumn(df) == {department, total_earnings} \cap Range(df.cols) # {}

\* if not {"department", "total_earnings"}.issubset(df.columns)
HasColumns(df) == {department, total_earnings} \subseteq Range(df.cols)

\* the outcomes of analyse(df): KeyError, or one result per order the sort may give
analyse(df) ==
    IF ~HasColumns(df) THEN {[exc |-> "KeyError", val |-> NoStats]}
    ELSE {[exc |-> "none",
           val |-> [overall       |-> Overall(df.rows),
                    by_department |-> bd,
                    top5_by_mean  |-> Head5(bd)]] : bd \in SortValues(Grouped(df.rows))}

-----------------------------------------------------------------------------
(* Inputs                                                                  *)

\* The values handed to the currency parser: null, numbers, every text of at
\* most MaxLen characters over ParseChars ("x" stands for a letter), and the
\* values of test_transform_converts_total_earnings.
ParseChars == {"$", ",", " ", "-", ".", "0", "1", "x"}

TestEarnings ==
    {<<"$", "1", ",", "2", "3", "4", ".", "5", "0">>, <<" ", "-", " ">>, <<>>,
     <<"$", "0", ".", "0", "0">>, <<"$", "-", "1", "0", ".", "0", "0">>,
     <<"$", "2", ",", "0", "0", "0">>}

ParserInputs(n) ==
    {Null} \cup {Number(k) : k \in {-10, 0, 7, 12}}
           \cup {Text(s) : s \in SeqsUpTo(ParseChars, n) \cup TestEarnings}

\* Column names and candidate lists handed to the column resolver
total_earnings_sp == <<"t", "o", "t", "a", "l", " ", "e", "a", "r", "n", "i", "n", "g", "s">>

ColumnNames == {Total_Earnings, total_earnings, Department, dept_name, ckan_id, Salary}

CandidateNames == {TOTAL_EARNINGS_U, totalearnings, department, Dept, dept_name, id}

\* The cells of the raw tables of the pipeline
EarnCells == {Text(<<"$", "2">>), Number(0), Text(<<"$", "-", "1">>),
              Text(<<" ", "-", " ">>), Text(<<"x">>), Null}

DeptCells == {Text(<<"A">>), Text(<<"B", " ">>), Text(<<" ">>)}

OneDeptCells == {Text(<<" ", "A">>)}

IdCells == {Number(7)}

SalaryCells == {Text(<<"$", "2">>)}

\* A layout names the columns of a raw table and the cells each may hold.
RawLayouts ==
    { <<[name |-> Total_Earnings, cells |-> EarnCells],
        [name |-> Department, cells |-> DeptCells]>>,
      <<[name |-> ckan_id, cells |-> IdCells],
        [name |-> dept_name, cells |-> OneDeptCells],
        [name |-> TOTAL_EARNINGS_U, cells |-> EarnCells]>>,
      <<[name |-> total_earnings_sp, cells |-> EarnCells]>>,
      <<[name |-> Department, cells |-> DeptCells],
        [name |-> Salary, cells |-> SalaryCells]>> }

\* the rows a layout allows: one cell per column
RECURSIVE RowsOf(_)
RowsOf(layout) ==
    IF layout = <<>> THEN {<<>>}
    ELSE {<<c>> \o r : c \in Head(layout).cells, r \in RowsOf(Tail(layout))}

\* pd.DataFrame.from_records(records): no record gives a table without columns
RawTables(n) ==
    {NoTable} \cup
    UNION {{[cols |-> [i \in 1..Len(l) |-> l[i].name], rows |-> rs] :
            rs \in SeqsUpTo(RowsOf(l), n) \ {<<>>}} : l \in RawLayouts}

\* The rows of the clean tables read from a file or handed to analyse: each
\* employee occurs at most once in a table.
Employee(d, e, i) == [department |-> d, total_earnings |-> e, id |-> Number(i)]

Employees ==
    { Employee(Text(<<"A">>), Num(1 * Scale), 1),
      Employee(Text(<<"B">>), Num(2 * Scale), 2),
      Employee(Text(<<"C">>), NaN, 3),
      Employee(Text(<<"D">>), Num(2 * Scale), 4),
      Employee(Text(<<"E">>), Num(4 * Scale), 5),
      Employee(Null, Num(1 * Scale), 6),
      Employee(Null, Num(3 * Scale), 7) }

FullColumns == <<department, total_earnings, ckan_id>>

PartialColumns == {<<department, ckan_id>>, <<total_earnings>>, <<ckan_id>>, <<>>}

\* tables read by pd.read_csv(csv_path)
LocalFrames(n) ==
    {[cols |-> FullColumns, rows |-> rs] : rs \in InjSeqsUpTo(Employees, n)}
    \cup {[cols |-> c, rows |-> rs] : c \in PartialColumns, rs \in InjSeqsUpTo(Employees, 1)}

\* tables handed to analyse by a caller of the library
AnalyseFrames(n) ==
    {[cols |-> FullColumns, rows |-> rs] : rs \in InjSeqsUpTo(Employees, n)}
    \cup {[cols |-> c, rows |-> rs] : c \in PartialColumns, rs \in InjSeqsUpTo(Employees, 1)}

-----------------------------------------------------------------------------
(* The pipeline of main.py                                                 *)

Idle ==
    /\ raw = NoTable /\ clean = NoTable /\ saved = FALSE /\ stats = NoStats
    /\ err = "none" /\ nparsed = 0 /\ rc = -1
    /\ columns = <<>> /\ candidates = <<>> /\ found = NotFound
    /\ x = Null /\ parsed = Return(NaN)

Init == pc = "start" /\ Idle

callvars == <<columns, candidates, found, x, parsed>>

\* df_raw = extract_boston_salary(args.url)
Extract ==
    /\ pc = "start"
    /\ raw' \in RawTables(MaxRows)
    /\ pc' = "extracted"
    /\ UNCHANGED <<clean, saved, stats, err, nparsed, rc, callvars>>

\* df_clean = transform(df_raw); an exception ends main with status 1
TransformStep ==
    /\ pc = "extracted"
    /\ LET r == transform(raw)
       IN  /\ nparsed' = r.nparsed
           /\ err' = r.exc
           /\ clean' = r.table
           /\ pc' = IF r.exc = "none" THEN "transformed" ELSE "transform_failed"
           /\ rc' = IF r.exc = "none" THEN rc ELSE 1
    /\ UNCHANGED <<raw, saved, stats, callvars>>

\* load_to_csv(df_clean, args.out)
Load ==
    /\ pc = "transformed"
    /\ saved' = TRUE
    /\ pc' = "loaded"
    /\ UNCHANGED <<raw, clean, stats, err, nparsed, rc, callvars>>

\* --read-local: df_clean = pd.read_csv(csv_path); sys.exit(2) unless both
\* columns are present
ReadLocal ==
    /\ pc = "start"
    /\ \E df \in LocalFrames(MaxRows) :
         /\ clean' = df
         /\ pc' = IF {department, total_earnings} \subseteq Range(df.cols)
                  THEN "loaded" ELSE "local_rejected"
         /\ rc' = IF {department, total_earnings} \subseteq Range(df.cols) THEN rc ELSE 2
    /\ UNCHANGED <<raw, saved, stats, err, nparsed, callvars>>

\* stats = analyse(df_clean)
AnalyseStep ==
    /\ pc = "loaded"
    /\ \E r \in analyse(clean) :
         /\ stats' = r.val
         /\ err' = r.exc
         /\ pc' = IF r.exc = "none" THEN "analysed" ELSE "analyse_failed"
         /\ rc' = IF r.exc = "none" THEN rc ELSE 1
    /\ UNCHANGED <<raw, clean, saved, nparsed, callvars>>

\* the report is printed and main returns 0
Report ==
    /\ pc = "analysed"
    /\ rc' = 0
    /\ pc' = "done"
    /\ UNCHANGED <<raw, clean, saved, stats, err, nparsed, callvars>>

Next == Extract \/ TransformStep \/ Load \/ ReadLocal \/ AnalyseStep \/ Report

Spec == Init /\ [][Next]_vars

-----------------------------------------------------------------------------
(* analyse called on a table by a user of the library                      *)

InitAnalyse ==
    /\ pc = "call_analyse"
    /\ clean \in AnalyseFrames(MaxCleanRows)
    /\ raw = NoTable /\ saved = FALSE /\ stats = NoStats
    /\ err = "none" /\ nparsed = 0 /\ rc = -1
    /\ columns = <<>> /\ candidates = <<>> /\ found = NotFound
    /\ x = Null /\ parsed = Return(NaN)

AnalyseCall ==
    /\ pc = "call_analyse"
    /\ \E r \in analyse(clean) :
         /\ stats' = r.val
         /\ err' = r.exc
         /\ pc' = IF r.exc = "none" THEN "analysed" ELSE "analyse_failed"
    /\ UNCHANGED <<raw, clean, saved, nparsed, rc, callvars>>

NextAnalyse == AnalyseCall

SpecAnalyse == InitAnalyse /\ [][NextAnalyse]_vars

-----------------------------------------------------------------------------
(* _find_col called on columns and candidates                              *)

InitFindCol ==
    /\ pc = "call_find_col"
    /\ columns \in InjSeqsUpTo(ColumnNames, MaxCols)
    /\ candidates \in SeqsUpTo(CandidateNames, MaxCands)
    /\ found = NotFound
    /\ raw = NoTable /\ clean = NoTable /\ saved = FALSE /\ stats = NoStats
    /\ err = "none" /\ nparsed = 0 /\ rc = -1
    /\ x = Null /\ parsed = Return(NaN)

FindColCall ==
    /\ pc = "call_find_col"
    /\ found' = _find_col(columns, candidates)
    /\ pc' = "found_col"
    /\ UNCHANGED <<raw, clean, saved, stats, err, nparsed, rc, columns, candidates, x, parsed>>

NextFindCol == FindColCall

SpecFindCol == InitFindCol /\ [][NextFindCol]_vars

-----------------------------------------------------------------------------
(* _to_float called on a value                                             *)

InitToFloat ==
    /\ pc = "call_to_float"
    /\ x \in ParserInputs(MaxLen)
    /\ parsed = Return(NaN)
    /\ raw = NoTable /\ clean = NoTable /\ saved = FALSE /\ stats = NoStats
    /\ err = "none" /\ nparsed = 0 /\ rc = -1
    /\ columns = <<>> /\ candidates = <<>> /\ found = NotFound

ToFloatCall ==
    /\ pc = "call_to_float"
    /\ parsed' = _to_float(x)
    /\ pc' = "parsed"
    /\ UNCHANGED <<raw, clean, saved, stats, err, nparsed, rc, columns, candidates, found, x>>

NextToFloat == ToFloatCall

SpecToFloat == InitToFloat /\ [][NextToFloat]_vars

-----------------------------------------------------------------------------
(* Properties.  The notions the statements use are defined here on their  *)
(* own, not through the operators that model the code.                     *)

\* a name lowercased and without its spaces and underscores
Fold(name) ==
    LET kept == SelectSeq(name, LAMBDA c : c \notin {" ", "_"})
    IN  [i \in 1..Len(kept) |->
            IF \E k \in 1..Len(Upper) : Upper[k] = kept[i]
            THEN LowerCase[CHOOSE k \in 1..Len(Upper) : Upper[k] = kept[i]]
            ELSE kept[i]]

\* a text without its leading and trailing spaces
Trimmed(s) ==
    LET inked == {i \in 1..Len(s) : s[i] # " "}
    IN  IF inked = {} THEN <<>>
        ELSE SubSeq(s, CHOOSE i \in inked : \A j \in inked : i <= j,
                       CHOOSE i \in inked : \A j \in inked : j <= i)

\* a text without its "$" and "," characters, trimmed
Bare(s) == Trimmed(SelectSeq(s, LAMBDA c : c \notin {"$", ","}))

\* the position of the point of a numeral, Len(s) + 1 when it has none
PointOf(s) ==
    IF \E i \in 1..Len(s) : s[i] = "." THEN CHOOSE i \in 1..Len(s) : s[i] = "."
    ELSE Len(s) + 1

SignLen(s) == IF s # <<>> /\ s[1] \in {"+", "-"} THEN 1 ELSE 0

\* s is a decimal numeral: an optional sign, digits, at most one point, and
\* at least one digit
IsNumeral(s) ==
    LET digitAt == {i \in 1..Len(s) : \E k \in 1..10 : Digits[k] = s[i]}
    IN  /\ digitAt # {}
        /\ \A i \in (SignLen(s) + 1)..Len(s) : i \in digitAt \/ i = PointOf(s)

\* the value of a numeral, in units of 1/Scale
RECURSIVE PlaceSum(_, _)
PlaceSum(s, i) ==
    IF i > Len(s) THEN 0
    ELSE (IF \E k \in 1..10 : Digits[k] = s[i]
          THEN LET dv == (CHOOSE k \in 1..10 : Digits[k] = s[i]) - 1
               IN  IF i < PointOf(s) THEN dv * Scale * Pow10(PointOf(s) - 1 - i)
                   ELSE (dv * Scale) \div Pow10(i - PointOf(s))
          ELSE 0) + PlaceSum(s, i + 1)

NumeralValue(s) == IF s # <<>> /\ s[1] = "-" THEN -PlaceSum(s, 1) ELSE PlaceSum(s, 1)

\* C3: the currency parser never raises; it returns missing for a null, for a
\* text that is empty or "-" once "$" and "," are removed and it is trimmed,
\* and for a text that is no numeral; otherwise it returns the number the
\* text denotes, negative numbers included ("$-10.00" gives -10.0, "$0.00"
\* gives 0.0 and not missing).
C3_ParserTotalAndExact ==
    pc = "parsed" =>
        /\ parsed.exc = "none"
        /\ IsNa(x) => parsed.val = NaN
        /\ ~IsNa(x) =>
             LET s == Bare(Str(x))
             IN  /\ (s = <<>> \/ s = <<"-">>) => parsed.val = NaN
                 /\ ~IsNumeral(s) => parsed.val = NaN
                 /\ IsNumeral(s) => parsed.val = Num(NumeralValue(s))
        /\ x = Text(<<"$", "-", "1", "0", ".", "0", "0">>) => parsed.val = Num(-10 * Scale)
        /\ x = Text(<<"$", "0", ".", "0", "0">>) => parsed.val = Num(0)
        /\ x = Text(<<"$", "1", ",", "2", "3", "4", ".", "5", "0">>)
             => parsed.val = Num(1234 * Scale + Scale \div 2)

\* a negative amount written with "$" and "," has been parsed to its value
C3_Witness ==
    /\ pc = "parsed"
    /\ x = Text(<<"$", "-", "1", "0", ".", "0", "0">>)
    /\ parsed = Return(Num(-10 * Scale))

\* C7: the resolver compares names lowercased and without spaces and
\* underscores, tries the candidates in order, and returns a column of the
\* table whose folded name is that of the earliest candidate matching any
\* column; it returns "not found" exactly when no candidate matches a column.
C7_ResolverEarliestCandidate ==
    pc = "found_col" =>
        LET hits == {i \in 1..Len(candidates) :
                        \E j \in 1..Len(columns) : Fold(columns[j]) = Fold(candidates[i])}
        IN  /\ found.found <=> hits # {}
            /\ found.found =>
                 /\ found.name \in Range(columns)
                 /\ \E i \in hits : /\ \A k \in hits : i <= k
                                    /\ Fold(found.name) = Fold(candidates[i])

\* two candidates match two different columns, and the column returned is
\* spelled differently from the candidate that found it
C7_Witness ==
    /\ pc = "found_col"
    /\ Len(candidates) = 2 /\ Len(columns) = 2
    /\ Fold(candidates[1]) = Fold(columns[2])
    /\ Fold(candidates[2]) = Fold(columns[1])
    /\ Fold(columns[1]) # Fold(columns[2])
    /\ found = Found(columns[2])
    /\ columns[2] # candidates[1]

\* The mandatory column, as the statements speak of it: some column whose
\* folded name is that of an earnings alias.
EarningsResolve ==
    \E i \in 1..Len(raw.cols), a \in 1..Len(EarningsAliases) :
        Fold(raw.cols[i]) = Fold(EarningsAliases[a])

\* the earnings and department cells of raw row i (the layouts of the model
\* have at most one column of each kind)
EarningsCell(i) ==
    raw.rows[i][CHOOSE c \in 1..Len(raw.cols) :
                  \E a \in 1..Len(EarningsAliases) : Fold(raw.cols[c]) = Fold(EarningsAliases[a])]

DeptResolve ==
    \E i \in 1..Len(raw.cols), a \in 1..Len(DepartmentAliases) :
        Fold(raw.cols[i]) = Fold(DepartmentAliases[a])

DeptCell(i) ==
    raw.rows[i][CHOOSE c \in 1..Len(raw.cols) :
                  \E a \in 1..Len(DepartmentAliases) : Fold(raw.cols[c]) = Fold(DepartmentAliases[a])]

\* raw row i has earnings that parse to a number that is not negative
ValidRow(i) ==
    /\ EarningsCell(i) # Null
    /\ IsNumeral(Bare(Str(EarningsCell(i))))
    /\ NumeralValue(Bare(Str(EarningsCell(i)))) >= 0

\* the strictly increasing maps from the clean rows onto the valid raw rows
Retained ==
    {f \in [1..Len(clean.rows) -> 1..Len(raw.rows)] :
        /\ \A i, j \in 1..Len(clean.rows) : i < j => f[i] < f[j]
        /\ {f[j] : j \in 1..Len(clean.rows)} = {i \in 1..Len(raw.rows) : ValidRow(i)}}

\* C1: when the earnings column resolves, the clean table is the input-order
\* subsequence of the rows whose earnings parse to a non-negative number: a
\* row is kept if and only if its parsed earnings are present and >= 0, no kept
\* row is reordered or duplicated, and the clean table has as many rows as the
\* input has valid ones.
C1_CleanIsStableFilter ==
    pc = "transformed" =>
        /\ Len(clean.rows) = Cardinality({i \in 1..Len(raw.rows) : ValidRow(i)})
        /\ \E f \in Retained :
             \A j \in 1..Len(clean.rows) :
                 clean.rows[j].total_earnings = Num(NumeralValue(Bare(Str(EarningsCell(f[j])))))

\* of two rows the first is dropped for its negative earnings and the second,
\* with earnings of zero, is kept
C1_Witness ==
    /\ pc = "transformed"
    /\ Len(raw.rows) = 2 /\ Len(clean.rows) = 1
    /\ EarningsCell(1) = Text(<<"$", "-", "1">>)
    /\ EarningsCell(2) = Number(0)
    /\ clean.rows[1].total_earnings = Num(0)

\* C2: transform fails with KeyError, and yields no clean table, if and only
\* if no column resolves against the earnings aliases; the failure comes
\* before any row is parsed, whatever the rows hold, and a missing department
\* or identifier column never makes it fail.
C2_FailsIffNoEarningsColumn ==
    /\ pc = "transformed" => EarningsResolve /\ err = "none"
    /\ pc = "transform_failed" =>
         /\ ~EarningsResolve
         /\ err = "KeyError" /\ rc = 1
         /\ clean = NoTable
         /\ nparsed = 0

\* a table of two rows with a department column and no earnings column has
\* been refused
C2_Witness ==
    /\ pc = "transform_failed"
    /\ Len(raw.rows) = 2
    /\ DeptResolve

\* C6: without a department column every clean row has the department
\* "UNKNOWN"; with one, every kept row has its source value as text, trimmed,
\* and a blank source value stays the empty text and never becomes "UNKNOWN".
C6_DepartmentUnknownOrTrimmed ==
    pc = "transformed" =>
        \E f \in Retained :
            \A j \in 1..Len(clean.rows) :
                LET d == clean.rows[j].department
                IN  IF ~DeptResolve THEN d = Text(UNKNOWN)
                    ELSE /\ d = Text(Trimmed(Str(DeptCell(f[j]))))
                         /\ (\A k \in 1..Len(DeptCell(f[j]).s) : DeptCell(f[j]).s[k] = " ")
                               => d = Text(<<>>)

\* a kept row whose source department is blank has the empty department
C6_Witness ==
    /\ pc = "transformed"
    /\ DeptResolve
    /\ Len(clean.rows) = 2
    /\ clean.rows[1].department = Text(<<>>)
    /\ clean.rows[2].department = Text(<<"B">>)

\* The groups of a clean table, as the statements speak of them.
ByDept == stats.by_department

\* the non-null earnings of the rows of one department, and of all rows
EarningsOf(key) ==
    {r \in 1..Len(clean.rows) :
        clean.rows[r].department = key /\ ~clean.rows[r].total_earnings.nan}

AllEarnings == {r \in 1..Len(clean.rows) : ~clean.rows[r].total_earnings.nan}

FirstAppearance(key) ==
    CHOOSE r \in 1..Len(clean.rows) :
        /\ clean.rows[r].department = key
        /\ \A q \in 1..(r - 1) : clean.rows[q].department # key

\* the sum of f over the set S
RECURSIVE SumOver(_, _)
SumOver(S, f) ==
    IF S = {} THEN 0
    ELSE LET e == CHOOSE e \in S : TRUE IN f[e] + SumOver(S \ {e}, f)

\* st is the sample standard deviation (divisor count-1) of the earnings of
\* the rows in S, for at least two rows: with n = |S| and T their sum, its
\* square is the sum of (n*x - T)^2 over n^2 * (n - 1)
IsSampleStd(st, S) ==
    LET n == Cardinality(S)
        val == [r \in S |-> clean.rows[r].total_earnings.v]
        T == SumOver(S, val)
        dev == [r \in S |-> (n * val[r] - T) * (n * val[r] - T)]
    IN  /\ ~st.nan
        /\ st.n * (n * n * (n - 1)) = SumOver(S, dev) * st.d

IsZero(st) == ~st.nan /\ st.n = 0

\* C4: std is the sample standard deviation (divisor count-1) and exactly 0.0
\* when count = 1, in the overall record and in every record of by_department.
C4_StdZeroForSingleRow ==
    pc = "analysed" =>
        /\ stats.overall.count = 1 => IsZero(stats.overall.std)
        /\ stats.overall.count > 1 => IsSampleStd(stats.overall.std, AllEarnings)
        /\ \A g \in 1..Len(ByDept) :
             /\ ByDept[g].count = 1 => IsZero(ByDept[g].std)
             /\ ByDept[g].count > 1 =>
                  IsSampleStd(ByDept[g].std, EarningsOf(ByDept[g].department))

\* C5, as stated: by_department is ordered by mean descending, and departments
\* with equal means come in the order of their first appearance in the table.
C5_TiesByFirstAppearance ==
    pc = "analysed" =>
        \A i, j \in 1..Len(ByDept) :
            (i < j /\ ~ByDept[i].mean.nan /\ ~ByDept[j].mean.nan) =>
                \/ RLess(ByDept[j].mean, ByDept[i].mean)
                \/ /\ ~RLess(ByDept[i].mean, ByDept[j].mean)
                   /\ FirstAppearance(ByDept[i].department)
                        < FirstAppearance(ByDept[j].department)

\* C5, amended: by_department is ordered by mean descending, the departments
\* without a mean last; nothing is said of departments with equal means.
C5_MeanDescending ==
    pc = "analysed" =>
        \A i, j \in 1..Len(ByDept) :
            i < j =>
                /\ (~ByDept[i].mean.nan /\ ~ByDept[j].mean.nan)
                      => ~RLess(ByDept[i].mean, ByDept[j].mean)
                /\ ByDept[i].mean.nan => ByDept[j].mean.nan

\* two departments come out against their alphabetical order because of
\* their means
C5_Witness ==
    /\ pc = "analysed"
    /\ Len(ByDept) = 2
    /\ ByDept[1].department = Text(<<"B">>)
    /\ ByDept[2].department = Text(<<"A">>)
    /\ RLess(ByDept[2].mean, ByDept[1].mean)

\* C8: analyse groups the rows by exact department value and drops none: the
\* rows without a department form one group of their own, every row belongs
\* to exactly one group, and the counts of by_department add up to
\* overall.count.
C8_GroupsPartitionRows ==
    pc = "analysed" =>
        LET count == [g \in 1..Len(ByDept) |-> ByDept[g].count]
        IN  /\ \A g, h \in 1..Len(ByDept) :
                 g # h => ByDept[g].department # ByDept[h].department
            /\ {ByDept[g].department : g \in 1..Len(ByDept)}
                 = {clean.rows[r].department : r \in 1..Len(clean.rows)}
            /\ \A g \in 1..Len(ByDept) :
                 ByDept[g].count = Cardinality(EarningsOf(ByDept[g].department))
            /\ SumOver(1..Len(ByDept), count) = stats.overall.count
            /\ stats.overall.count = Cardinality(AllEarnings)

\* the two rows without a department form one group beside other groups
C8_Witness ==
    /\ pc = "analysed"
    /\ Len(ByDept) >= 3
    /\ \E g \in 1..Len(ByDept) : ByDept[g].department = Null /\ ByDept[g].count = 2

\* C9: analyse fails with KeyError and returns no result on a table without
\* the total_earnings column, and on one without the department column; it
\* returns a result only when both are present.
C9_FailsWithoutColumns ==
    LET has(name) == \E c \in 1..Len(clean.cols) : clean.cols[c] = name
    IN  /\ pc = "analyse_failed" =>
             /\ ~(has(department) /\ has(total_earnings))
             /\ err = "KeyError"
             /\ stats = NoStats
        /\ pc = "analysed" => has(department) /\ has(total_earnings) /\ err = "none"

\* a table of one row with a department column and no total_earnings column
\* has been refused
C9_Witness ==
    /\ pc = "analyse_failed"
    /\ department \in Range(clean.cols)
    /\ Len(clean.rows) = 1

\* C10: top5_by_mean is a prefix of by_department: it has min(5, number of
\* groups) records and its i-th record is the i-th record of by_department.
C10_Top5IsPrefix ==
    pc = "analysed" =>
        LET top == stats.top5_by_mean
        IN  /\ Len(top) = (IF Len(ByDept) < 5 THEN Len(ByDept) ELSE 5)
            /\ \A i \in 1..Len(top) : top[i] = ByDept[i]

\* six groups, of which top5_by_mean holds the first five
C10_Witness ==
    /\ pc = "analysed"
    /\ Len(ByDept) = 6
    /\ Len(stats.top5_by_mean) = 5
    /\ stats.top5_by_mean[5] = ByDept[5]
    /\ ByDept[6] \notin Range(stats.top5_by_mean)

====
